---- MODULE Spec2Model ----
(***************************************************************************)
(* Model of the vroom command-line front end (src/main.cpp): the getopt    *)
(* scan, the deferred numeric conversion, input acquisition, the log       *)
(* filter, the parse/solve calls and the three ways a run can end.         *)
(*                                                                         *)
(* Strings that the program compares or converts are sequences of          *)
(* one-character strings (<<"1","a">> is "1a"); messages are plain strings.*)
(* The integer types keep their relative widths on a reduced scale:        *)
(* unsigned has UnsignedBits bits and unsigned long has ULongBits bits     *)
(* (32 and 64 on an LP64 build).                                           *)
(***************************************************************************)
EXTENDS Integers, Sequences, FiniteSets, TLC

\* ---------------------------------------------------------------- bounds
MaxArgs == 2
UnsignedBits == 4
ULongBits == 6

\* ------------------------------------------------------------- constants
DefaultThreads == 4
DefaultExploration == 1
max_exploration_level == 5

UINT_MAX == 2^UnsignedBits - 1
ULONG_MAX == 2^ULongBits - 1

Digits == <<"0", "1", "2", "3", "4", "5", "6", "7", "8", "9">>
IsDigit(c) == \E i \in 1..10 : Digits[i] = c
DigitVal(c) == (CHOOSE i \in 1..10 : Digits[i] = c) - 1
IsSpace(c) == c = " "

\* The values given to -t and -x: empty, not a number, a small number, a
\* number above the exploration ceiling, a negative number, a number with
\* trailing text, a number that fits unsigned long but not unsigned, and a
\* number that does not fit unsigned long.
Texts ==
  {<<>>, <<"a">>, <<"1">>, <<"9">>, <<"-", "1">>, <<"1", "a">>,
   <<"1", "9">>, <<"9", "9">>}

Min(a, b) == IF a <= b THEN a ELSE b

\* ------------------------------------------------------- pure functions

\* std::to_string(unsigned)
RECURSIVE to_string(_)
to_string(n) ==
  IF n < 10 THEN <<Digits[n + 1]>>
  ELSE to_string(n \div 10) \o <<Digits[(n % 10) + 1]>>

RECURSIVE SkipSpace(_)
SkipSpace(s) ==
  IF s # <<>> /\ IsSpace(Head(s)) THEN SkipSpace(Tail(s)) ELSE s

\* Longest prefix of decimal digits.
RECURSIVE DigitPrefix(_)
DigitPrefix(s) ==
  IF s # <<>> /\ IsDigit(Head(s)) THEN <<Head(s)>> \o DigitPrefix(Tail(s))
  ELSE <<>>

\* Magnitude of a digit string, saturating just above ULONG_MAX.
RECURSIVE Magnitude(_, _)
Magnitude(acc, s) ==
  IF s = <<>> THEN acc
  ELSE Magnitude(Min(acc * 10 + DigitVal(Head(s)), ULONG_MAX + 1), Tail(s))

\* std::stoul(str): strtoul in base 10 with the exceptions stoul raises.
\* Leading white space is skipped, one sign is accepted, the longest digit
\* prefix is converted and what follows it is ignored.  No digit at all is
\* std::invalid_argument, a magnitude above ULONG_MAX is std::out_of_range,
\* and a minus sign negates the result in unsigned long arithmetic.
stoul(str) ==
  LET s0 == SkipSpace(str)
      neg == s0 # <<>> /\ Head(s0) = "-"
      s1 == IF s0 # <<>> /\ Head(s0) \in {"-", "+"} THEN Tail(s0) ELSE s0
      ds == DigitPrefix(s1)
      mag == Magnitude(0, ds)
  IN  IF ds = <<>> THEN [ok |-> FALSE, what |-> "invalid_argument", val |-> 0]
      ELSE IF mag > ULONG_MAX
             THEN [ok |-> FALSE, what |-> "out_of_range", val |-> 0]
      ELSE [ok |-> TRUE, what |-> "",
            val |-> IF neg THEN (ULONG_MAX + 1 - mag) % (ULONG_MAX + 1)
                    ELSE mag]

\* Assignment of an unsigned long to an unsigned field.
ToUnsigned(v) == v % (UINT_MAX + 1)

\* std::min(cl_args.exploration_level, cl_args.max_exploration_level)
ClampExploration(level) == Min(level, max_exploration_level)

\* ----------------------------------------------------------- argv tokens
\* One element of argv as getopt sees it: the flag character and the value
\* attached to it (has = FALSE: no value follows).
NoValueFlags == {"g", "l", "v", "V", "h", "?"}
ValueFlags == {"a", "i", "m", "o", "p", "t", "x"}

Tok(f, h, a) == [flag |-> f, has |-> h, arg |-> a]

\* getopt(argc, argv, "a:gi:lm:o:p:t:vVx:h?"): the option character, or '?'
\* for a character that is not in optString and for a missing value.
getopt(tok) ==
  IF tok.flag \in NoValueFlags THEN [opt |-> tok.flag, optarg |-> <<>>]
  ELSE IF tok.flag \in ValueFlags /\ tok.has
         THEN [opt |-> tok.flag, optarg |-> tok.arg]
  ELSE [opt |-> "?", optarg |-> <<>>]

Paths == {<<>>, <<"f">>}
OutPaths == {<<"o">>, <<"q">>}

\* The tokens a run may meet.
Tokens ==
  {Tok(f, FALSE, <<>>) : f \in NoValueFlags \cup {"z"}}
    \cup {Tok("a", TRUE, <<"A">>), Tok("m", TRUE, <<"M">>),
          Tok("p", TRUE, <<"5">>), Tok("o", FALSE, <<>>)}
    \cup {Tok("i", TRUE, p) : p \in Paths}
    \cup {Tok("o", TRUE, p) : p \in OutPaths}
    \cup {Tok(f, TRUE, t) : f \in {"t", "x"}, t \in Texts}

\* A value flag without its value can only be the last element of argv.
MissingValue(tok) == tok.flag \in ValueFlags /\ ~tok.has

\* Did the scan so far end on such a flag?
EndsOnMissingValue(argv) ==
  IF argv = <<>> THEN FALSE ELSE MissingValue(argv[Len(argv)])

\* ------------------------------------------------------------------ state
VARIABLES
  LIBOSRM,                \* build flag of the #if at line 163
  pc,                     \* position in main
  scanned,                \* argv elements consumed by getopt so far
  argc_eq_optind,         \* argc == optind once getopt returned -1
  cl_args,                \* the option set
  nb_threads_arg,         \* text to convert for -t
  exploration_level_arg,  \* text to convert for -x
  log_filter,             \* process-wide severity filter
  cout_usage,             \* number of usage texts printed
  cerr,                   \* lines on the diagnostic stream
  out,                    \* documents handed to write_to_json
  parse_calls,            \* inputs handed to parse
  solve_calls,            \* <<exploration_level, nb_threads>> handed to solve
  events,                 \* order of the observable steps
  thrown,                 \* what parse or solve threw: <<kind, message>>
  exit_code               \* how the process ended

vars == <<LIBOSRM, pc, scanned, argc_eq_optind, cl_args, nb_threads_arg,
          exploration_level_arg, log_filter, cout_usage, cerr, out,
          parse_calls, solve_calls, events, thrown, exit_code>>

Running == -1
Aborted == 134

DefaultLogLevel == "error"

\* cl_args_t(): the defaults of the option set.
cl_args_t ==
  [osrm_address |-> <<"0", ".", "0", ".", "0", ".", "0">>,
   osrm_port |-> <<"5", "0", "0", "0">>,
   osrm_profile |-> <<>>,
   geometry |-> FALSE,
   input_file |-> <<>>,
   use_libosrm |-> FALSE,
   output_file |-> <<>>,
   nb_threads |-> DefaultThreads,
   log_level |-> DefaultLogLevel,
   input |-> <<>>,
   exploration_level |-> DefaultExploration]

Init ==
  /\ LIBOSRM \in BOOLEAN
  /\ pc = "scan"
  /\ scanned = <<>>
  /\ argc_eq_optind = FALSE
  /\ cl_args = cl_args_t
  /\ nb_threads_arg = to_string(cl_args_t.nb_threads)
  /\ exploration_level_arg = to_string(cl_args_t.exploration_level)
  /\ log_filter = "unset"
  /\ cout_usage = 0
  /\ cerr = <<>>
  /\ out = <<>>
  /\ parse_calls = <<>>
  /\ solve_calls = <<>>
  /\ events = <<>>
  /\ thrown = <<>>
  /\ exit_code = Running


\* ------------------------------------------------------------ collaborators
Positional == <<"P">>                   \* argv[optind] when there is one
FileContents == {<<>>, <<"F">>}         \* a file that cannot be read gives ""
Messages == {"E1", "E2"}                \* what a collaborator's exception says
Outcomes == {"ok", "custom_exception", "std::exception"}

ErrorDoc(message, output_file) ==
  [kind |-> "error", code |-> 1, message |-> message, geometry |-> FALSE,
   output_file |-> output_file]

SolutionDoc(geometry, output_file) ==
  [kind |-> "solution", code |-> 0, message |-> "", geometry |-> geometry,
   output_file |-> output_file]

\* write_to_json(obj, geometry, output_file): one document per call.
write_to_json(doc) == out' = Append(out, doc)

\* display_usage() leaving with a failure code.
display_usage_exit1 ==
  /\ cout_usage' = cout_usage + 1
  /\ exit_code' = 1
  /\ pc' = "exited"

\* display_usage(): the usage text on standard output, then exit(0).
display_usage ==
  /\ cout_usage' = cout_usage + 1
  /\ exit_code' = 0
  /\ pc' = "exited"

\* ------------------------------------------------------------ the flag scan
\* One turn of the while loop at line 71 on the argv element tok.
ScanFrame(tok) ==
  /\ pc = "scan"
  /\ Len(scanned) < MaxArgs
  /\ ~EndsOnMissingValue(scanned)
  /\ scanned' = Append(scanned, tok)
  /\ UNCHANGED <<LIBOSRM, argc_eq_optind, log_filter, cerr, out, parse_calls,
                 solve_calls, events, thrown>>

\* break; opt = getopt(...): the loop goes on.
Continue == pc' = "scan" /\ UNCHANGED <<cout_usage, exit_code>>

SetField(tok, args) ==
  /\ ScanFrame(tok)
  /\ Continue
  /\ cl_args' = args
  /\ UNCHANGED <<nb_threads_arg, exploration_level_arg>>

case_a ==
  \E tok \in Tokens :
    /\ getopt(tok).opt = "a"
    /\ SetField(tok, [cl_args EXCEPT !.osrm_address = getopt(tok).optarg])

case_g ==
  \E tok \in Tokens :
    /\ getopt(tok).opt = "g"
    /\ SetField(tok, [cl_args EXCEPT !.geometry = TRUE])

case_h ==
  \E tok \in Tokens :
    /\ getopt(tok).opt = "h"
    /\ ScanFrame(tok)
    /\ display_usage
    /\ UNCHANGED <<cl_args, nb_threads_arg, exploration_level_arg>>

case_i ==
  \E tok \in Tokens :
    /\ getopt(tok).opt = "i"
    /\ SetField(tok, [cl_args EXCEPT !.input_file = getopt(tok).optarg])

case_l ==
  \E tok \in Tokens :
    /\ getopt(tok).opt = "l"
    /\ SetField(tok, [cl_args EXCEPT !.use_libosrm = TRUE])

case_m ==
  \E tok \in Tokens :
    /\ getopt(tok).opt = "m"
    /\ SetField(tok, [cl_args EXCEPT !.osrm_profile = getopt(tok).optarg])

case_o ==
  \E tok \in Tokens :
    /\ getopt(tok).opt = "o"
    /\ SetField(tok, [cl_args EXCEPT !.output_file = getopt(tok).optarg])

case_p ==
  \E tok \in Tokens :
    /\ getopt(tok).opt = "p"
    /\ SetField(tok, [cl_args EXCEPT !.osrm_port = getopt(tok).optarg])

\* The first -t kept, later ones dropped.
assign_t_keep_first(optarg) ==
  nb_threads_arg' =
    IF \E i \in 1..Len(scanned) : getopt(scanned[i]).opt = "t"
      THEN nb_threads_arg ELSE optarg

\* nb_threads_arg = optarg
assign_t(optarg) == nb_threads_arg' = optarg

case_t ==
  \E tok \in Tokens :
    /\ getopt(tok).opt = "t"
    /\ ScanFrame(tok)
    /\ Continue
    /\ assign_t(getopt(tok).optarg)
    /\ UNCHANGED <<cl_args, exploration_level_arg>>

case_v ==
  \E tok \in Tokens :
    /\ getopt(tok).opt = "v"
    /\ SetField(tok, [cl_args EXCEPT !.log_level = "info"])

case_V ==
  \E tok \in Tokens :
    /\ getopt(tok).opt = "V"
    /\ SetField(tok, [cl_args EXCEPT !.log_level = "trace"])

case_x ==
  \E tok \in Tokens :
    /\ getopt(tok).opt = "x"
    /\ ScanFrame(tok)
    /\ Continue
    /\ exploration_level_arg' = getopt(tok).optarg
    /\ UNCHANGED <<cl_args, nb_threads_arg>>

\* default: break;  -- this is where getopt's '?' arrives
case_default ==
  \E tok \in Tokens :
    /\ getopt(tok).opt = "?"
    /\ ScanFrame(tok)
    /\ Continue
    /\ UNCHANGED <<cl_args, nb_threads_arg, exploration_level_arg>>

\* getopt returns -1: the loop ends; optind now stands at the first
\* positional argument, if there is one.
ScanEnd ==
  /\ pc = "scan"
  /\ \E none \in BOOLEAN :
       /\ EndsOnMissingValue(scanned) => none
       /\ argc_eq_optind' = none
  /\ pc' = "validate"
  /\ events' = Append(events, "scan_end")
  /\ UNCHANGED <<LIBOSRM, scanned, cl_args, nb_threads_arg,
                 exploration_level_arg, log_filter, cout_usage, cerr, out,
                 parse_calls, solve_calls, thrown, exit_code>>

\* ------------------------------------------------------ numeric validation
\* The message of the handler at line 124.
WrongNumericalValue == "Wrong numerical value."

\* The handler writing to standard output whatever -o said.
NumericFailure_stdout ==
  /\ cerr' = Append(cerr, <<"[Error] ", WrongNumericalValue>>)
  /\ write_to_json(ErrorDoc(WrongNumericalValue, <<>>))
  /\ exit_code' = 1
  /\ pc' = "exited"

\* catch (const std::exception& e) at line 123
NumericFailure ==
  /\ cerr' = Append(cerr, <<"[Error] ", WrongNumericalValue>>)
  /\ write_to_json(ErrorDoc(WrongNumericalValue, cl_args.output_file))
  /\ exit_code' = 1
  /\ pc' = "exited"

\* The try block at line 115.
ValidateNumerics ==
  /\ pc = "validate"
  /\ events' = Append(events, "stoul")
  /\ LET t == stoul(nb_threads_arg)
         x == stoul(exploration_level_arg)
     IN  IF ~t.ok
           THEN NumericFailure /\ UNCHANGED cl_args
         ELSE IF ~x.ok
           THEN /\ NumericFailure
                /\ cl_args' = [cl_args EXCEPT !.nb_threads = ToUnsigned(t.val)]
         ELSE /\ cl_args' =
                   [cl_args EXCEPT
                      !.nb_threads = ToUnsigned(t.val),
                      !.exploration_level =
                         ClampExploration(ToUnsigned(x.val))]
              /\ pc' = "acquire"
              /\ UNCHANGED <<cerr, out, exit_code>>
  /\ UNCHANGED <<LIBOSRM, scanned, argc_eq_optind, nb_threads_arg,
                 exploration_level_arg, log_filter, cout_usage, parse_calls,
                 solve_calls, thrown>>

\* --------------------------------------------------------- input acquisition
\* The positional argument preferred to the file.
InputSource_argv_first ==
  IF ~argc_eq_optind THEN "argv"
  ELSE IF cl_args.input_file = <<>> THEN "usage" ELSE "file"

\* Which source fills cl_args.input: "usage" when there is none.
InputSource ==
  IF cl_args.input_file = <<>>
    THEN IF argc_eq_optind THEN "usage" ELSE "argv"
    ELSE "file"

\* Lines 130-143.
AcquireInput ==
  /\ pc = "acquire"
  /\ CASE InputSource = "usage" ->
            /\ display_usage
            /\ UNCHANGED <<cl_args, events>>
       [] InputSource = "argv" ->
            /\ cl_args' = [cl_args EXCEPT !.input = Positional]
            /\ events' = Append(events, "read_argv")
            /\ pc' = "set_filter"
            /\ UNCHANGED <<cout_usage, exit_code>>
       [] InputSource = "file" ->
            /\ \E content \in FileContents :
                 cl_args' = [cl_args EXCEPT !.input = content]
            /\ events' = Append(events, "read_file")
            /\ pc' = "set_filter"
            /\ UNCHANGED <<cout_usage, exit_code>>
  /\ UNCHANGED <<LIBOSRM, scanned, argc_eq_optind, nb_threads_arg,
                 exploration_level_arg, log_filter, cerr, out, parse_calls,
                 solve_calls, thrown>>

\* ------------------------------------------------------------- log level
\* The filter set from the default level instead of the scanned one.
SetLogFilter_default ==
  /\ pc = "set_filter"
  /\ log_filter' = cl_args_t.log_level
  /\ events' = Append(events, "set_filter")
  /\ pc' = "parse"
  /\ UNCHANGED <<LIBOSRM, scanned, argc_eq_optind, cl_args, nb_threads_arg,
                 exploration_level_arg, cout_usage, cerr, out, parse_calls,
                 solve_calls, thrown, exit_code>>

\* Lines 146-147.
SetLogFilter ==
  /\ pc = "set_filter"
  /\ log_filter' = cl_args.log_level
  /\ events' = Append(events, "set_filter")
  /\ pc' = "parse"
  /\ UNCHANGED <<LIBOSRM, scanned, argc_eq_optind, cl_args, nb_threads_arg,
                 exploration_level_arg, cout_usage, cerr, out, parse_calls,
                 solve_calls, thrown, exit_code>>

\* -------------------------------------------------------- parse and solve
\* Is an exception of this kind caught by one of the handlers after the
\* try block at line 149?
Caught(kind) == kind = "custom_exception" \/ LIBOSRM

\* What follows a throw inside the try block: a handler (lines 158-171), or
\* std::terminate when no handler matches.
Throw(kind, message) ==
  IF Caught(kind)
    THEN /\ cerr' = Append(cerr, <<"[Error] ", message>>)
         /\ write_to_json(ErrorDoc(message, cl_args.output_file))
         /\ exit_code' = 1
         /\ pc' = "exited"
    ELSE /\ exit_code' = Aborted
         /\ pc' = "exited"
         /\ UNCHANGED <<cerr, out>>

\* input problem_instance = parse(cl_args);
Parse ==
  /\ pc = "parse"
  /\ parse_calls' = Append(parse_calls, cl_args.input)
  /\ events' = Append(events, "parse")
  /\ \E outcome \in Outcomes :
       IF outcome = "ok"
         THEN pc' = "solve" /\ UNCHANGED <<cerr, out, exit_code, thrown>>
         ELSE \E message \in Messages :
                thrown' = <<outcome, message>> /\ Throw(outcome, message)
  /\ UNCHANGED <<LIBOSRM, scanned, argc_eq_optind, cl_args, nb_threads_arg,
                 exploration_level_arg, log_filter, cout_usage, solve_calls>>

\* problem_instance.solve(cl_args.exploration_level, cl_args.nb_threads)
Solve ==
  /\ pc = "solve"
  /\ solve_calls' =
       Append(solve_calls, <<cl_args.exploration_level, cl_args.nb_threads>>)
  /\ events' = Append(events, "solve")
  /\ \E outcome \in Outcomes :
       IF outcome = "ok"
         THEN pc' = "write" /\ UNCHANGED <<cerr, out, exit_code, thrown>>
         ELSE \E message \in Messages :
                thrown' = <<outcome, message>> /\ Throw(outcome, message)
  /\ UNCHANGED <<LIBOSRM, scanned, argc_eq_optind, cl_args, nb_threads_arg,
                 exploration_level_arg, log_filter, cout_usage, parse_calls>>

\* write_to_json(sol, cl_args.geometry, cl_args.output_file); return 0;
WriteSolution ==
  /\ pc = "write"
  /\ write_to_json(SolutionDoc(cl_args.geometry, cl_args.output_file))
  /\ events' = Append(events, "write")
  /\ exit_code' = 0
  /\ pc' = "exited"
  /\ UNCHANGED <<LIBOSRM, scanned, argc_eq_optind, cl_args, nb_threads_arg,
                 exploration_level_arg, log_filter, cout_usage, cerr,
                 parse_calls, solve_calls, thrown>>

Next ==
  \/ case_a \/ case_g \/ case_h \/ case_i \/ case_l \/ case_m \/ case_o
  \/ case_p \/ case_t \/ case_v \/ case_V \/ case_x \/ case_default
  \/ ScanEnd
  \/ ValidateNumerics
  \/ AcquireInput
  \/ SetLogFilter
  \/ Parse
  \/ Solve
  \/ WriteSolution

Spec == Init /\ [][Next]_vars


\* ================================================================ properties
\* What the command line said, read off the scanned argv alone.

\* The value of the last occurrence of a flag, or a default.
RECURSIVE LastArg(_, _, _)
LastArg(argv, flag, default) ==
  IF argv = <<>> THEN default
  ELSE IF getopt(argv[Len(argv)]).opt = flag
         THEN getopt(argv[Len(argv)]).optarg
  ELSE LastArg(SubSeq(argv, 1, Len(argv) - 1), flag, default)

\* The severity chosen by the last -v or -V.
RECURSIVE LastLevel(_)
LastLevel(argv) ==
  IF argv = <<>> THEN DefaultLogLevel
  ELSE IF argv[Len(argv)].flag = "v" THEN "info"
  ELSE IF argv[Len(argv)].flag = "V" THEN "trace"
  ELSE LastLevel(SubSeq(argv, 1, Len(argv) - 1))

FinalThreadsText == LastArg(scanned, "t", to_string(DefaultThreads))
FinalExplorationText == LastArg(scanned, "x", to_string(DefaultExploration))
FinalOutput == LastArg(scanned, "o", <<>>)
FinalInputFile == LastArg(scanned, "i", <<>>)

Count(seq, e) == Cardinality({i \in 1..Len(seq) : seq[i] = e})
Index(seq, e) == CHOOSE i \in 1..Len(seq) : seq[i] = e
Occurs(seq, e) == \E i \in 1..Len(seq) : seq[i] = e

\* The numeric conversion has been attempted.
Converted == Occurs(events, "stoul")
ConversionFails ==
  ~stoul(FinalThreadsText).ok \/ ~stoul(FinalExplorationText).ok

\* A text that is an unsigned integer: digits only, at least one, and a
\* value that fits the unsigned type.
ValidUnsigned(text) ==
  /\ text # <<>>
  /\ \A i \in 1..Len(text) : IsDigit(text[i])
  /\ Magnitude(0, text) <= UINT_MAX

\* C1: a finished run produced exactly one of usage text, solution document
\* and error document, wrote at most one document, and left with exit code
\* 0 after the usage text or the solution and 1 after the error document;
\* no run ends in another way.
C1_ExactlyOneOutcome ==
  /\ Len(out) <= 1
  /\ pc = "exited" =>
       \/ cout_usage = 1 /\ out = <<>> /\ exit_code = 0
       \/ /\ cout_usage = 0 /\ Len(out) = 1 /\ exit_code = 0
          /\ out[1].kind = "solution"
       \/ /\ cout_usage = 0 /\ Len(out) = 1 /\ exit_code = 1
          /\ out[1].kind = "error"

\* C2: when the final text of -t or of -x does not convert, the run writes
\* the error document {1, "Wrong numerical value."} to the destination named
\* by the last -o (standard output, the empty path, without -o), exits with
\* code 1, and has read no input, looked at no positional argument, set no
\* severity filter and called neither parse nor solve.
C2_WrongNumericalValue ==
  (Converted /\ ConversionFails) =>
    /\ pc = "exited"
    /\ exit_code = 1
    /\ out = <<ErrorDoc("Wrong numerical value.", FinalOutput)>>
    /\ cout_usage = 0
    /\ events = <<"scan_end", "stoul">>
    /\ cl_args.input = <<>>
    /\ log_filter = "unset"
    /\ parse_calls = <<>>
    /\ solve_calls = <<>>

\* C2 witness: "-t a -o q" ended with the error document in q.
C2_Witness ==
  /\ pc = "exited"
  /\ scanned = <<Tok("t", TRUE, <<"a">>), Tok("o", TRUE, <<"q">>)>>
  /\ Len(out) = 1
  /\ out[1].output_file = <<"q">>
  /\ out[1].message = "Wrong numerical value."

\* C3: every final -t or -x text that is not a valid unsigned integer
\* (empty, negative, overflowing, or with a non-numeric part) makes the
\* validation fail with exit code 1, and never reaches solve.
C3_InvalidTextRejected ==
  (Converted /\ (~ValidUnsigned(FinalThreadsText)
                   \/ ~ValidUnsigned(FinalExplorationText))) =>
    /\ pc = "exited"
    /\ exit_code = 1
    /\ solve_calls = <<>>

\* C4: after a validation that passes, the exploration level of the option
\* set, and the one handed to solve, is min(parsed -x value, 5), inside
\* 0..5, and the thread count handed to solve is the parsed -t value.
C4_ExplorationClamped ==
  (Converted /\ ~ConversionFails) =>
    /\ cl_args.exploration_level \in 0..max_exploration_level
    /\ cl_args.exploration_level =
         Min(stoul(FinalExplorationText).val, max_exploration_level)
    /\ \A i \in 1..Len(solve_calls) :
         /\ solve_calls[i][1] =
              Min(stoul(FinalExplorationText).val, max_exploration_level)
         /\ solve_calls[i][2] = stoul(FinalThreadsText).val

\* C5 as stated: without a positional argument and with an empty input file
\* path, whatever the other flags, the run prints the usage text and exits
\* with code 0, writes no document and calls neither parse nor solve.
C5_UsageWhateverTheFlags ==
  (pc = "exited" /\ Occurs(events, "scan_end")
     /\ FinalInputFile = <<>> /\ argc_eq_optind) =>
    /\ cout_usage = 1
    /\ exit_code = 0
    /\ out = <<>>
    /\ parse_calls = <<>>
    /\ solve_calls = <<>>

\* C5 amended: without a positional argument and with an empty input file
\* path, a run whose final -t and -x texts convert prints the usage text and
\* exits at once with code 0: no document, no input read, no filter set, no
\* call of parse or solve.
C5_UsageOnMissingInput ==
  (Converted /\ ~ConversionFails /\ pc # "acquire"
     /\ FinalInputFile = <<>> /\ argc_eq_optind) =>
    /\ pc = "exited"
    /\ cout_usage = 1
    /\ exit_code = 0
    /\ out = <<>>
    /\ cerr = <<>>
    /\ events = <<"scan_end", "stoul">>
    /\ log_filter = "unset"
    /\ parse_calls = <<>>
    /\ solve_calls = <<>>

\* C5 witness: "-g -x 9" without input ended on the usage text.
C5_Witness ==
  /\ pc = "exited"
  /\ scanned = <<Tok("g", FALSE, <<>>), Tok("x", TRUE, <<"9">>)>>
  /\ argc_eq_optind
  /\ Converted
  /\ cout_usage = 1

\* C6: once the scan meets -h or -?, the usage text is printed and the run
\* ends with code 0; no later flag is scanned, nothing is converted, read,
\* called or written.
C6_HelpEndsTheRun ==
  \A i \in 1..Len(scanned) :
    scanned[i].flag \in {"h", "?"} =>
      /\ i = Len(scanned)
      /\ pc = "exited"
      /\ cout_usage = 1
      /\ exit_code = 0
      /\ events = <<>>
      /\ out = <<>>
      /\ parse_calls = <<>>
      /\ solve_calls = <<>>

\* C7: the text handed to parse has exactly one source: the file when the
\* input file path left by the scan is not empty, even with a positional
\* argument present, and else the first positional argument.
C7_OneInputSource ==
  \A i \in 1..Len(parse_calls) :
    IF FinalInputFile # <<>>
      THEN /\ parse_calls[i] \in FileContents
           /\ Count(events, "read_file") = 1
           /\ ~Occurs(events, "read_argv")
      ELSE /\ parse_calls[i] = Positional
           /\ ~argc_eq_optind
           /\ Count(events, "read_argv") = 1
           /\ ~Occurs(events, "read_file")

\* C7 witness: "-i f" with a positional argument present, parse given the
\* content of the file.
C7_Witness ==
  /\ scanned = <<Tok("i", TRUE, <<"f">>)>>
  /\ ~argc_eq_optind
  /\ parse_calls = <<<<"F">>>>

\* C8: a failure of parse or of solve, domain-specific or generic, ends the
\* run with code 1 after the message was written as the error document to
\* the configured destination and printed as "[Error] <message>".
C8_CollaboratorFailureReported ==
  thrown # <<>> =>
    /\ pc = "exited"
    /\ exit_code = 1
    /\ out = <<ErrorDoc(thrown[2], FinalOutput)>>
    /\ cerr = << <<"[Error] ", thrown[2]>> >>

\* C9: the conversion happens once, after the scan, on the last text given
\* to -t and to -x (the default text when the flag is absent): that text
\* alone decides whether validation fails and which values reach solve.
C9_LastOccurrenceDecides ==
  Converted =>
    LET t == stoul(FinalThreadsText)
        x == stoul(FinalExplorationText)
    IN  /\ Count(events, "stoul") = 1
        /\ SubSeq(events, 1, 2) = <<"scan_end", "stoul">>
        /\ (t.ok /\ x.ok) <=> ~(pc = "exited" /\ Len(events) = 2
                                  /\ exit_code = 1)
        /\ \A i \in 1..Len(solve_calls) :
             solve_calls[i] = <<ClampExploration(ToUnsigned(x.val)),
                                ToUnsigned(t.val)>>

\* C9 witness: "-t a -t 1" reached solve with one thread.
C9_Witness ==
  /\ scanned = <<Tok("t", TRUE, <<"a">>), Tok("t", TRUE, <<"1">>)>>
  /\ solve_calls = <<<<DefaultExploration, 1>>>>

\* C10: in a run that calls parse, the severity filter was set exactly once,
\* after the end of the scan and before parse and solve, to the level of the
\* last -v or -V (the default without them), and no step changes it after
\* the parse call.
C10_FilterSetOnce ==
  /\ [](parse_calls # <<>> =>
          /\ Count(events, "set_filter") = 1
          /\ Index(events, "scan_end") < Index(events, "set_filter")
          /\ Index(events, "set_filter") < Index(events, "parse")
          /\ Occurs(events, "solve") =>
               Index(events, "set_filter") < Index(events, "solve")
          /\ log_filter = LastLevel(scanned))
  /\ [][parse_calls # <<>> => log_filter' = log_filter]_vars

\* C10 witness: "-v -V" reached parse under the trace filter.
C10_Witness ==
  /\ scanned = <<Tok("v", FALSE, <<>>), Tok("V", FALSE, <<>>)>>
  /\ parse_calls # <<>>
  /\ log_filter = "trace"

====
